---- MODULE Spec2Model ----
(***************************************************************************)
(* Model of datastructures.py: WordIndexedSparseMatrix (a word-indexed     *)
(* sparse matrix kept as two nested dicts, rows and cols) and Classes (a   *)
(* word -> class mapping kept as a dict of indexes into a list of labels), *)
(* and of the generators pairs and filter_pairs_by_vocabulary of           *)
(* dataset.py (a generator is the sequence of what it yields).             *)
(*                                                                         *)
(* A Python dict is a TLA+ function whose DOMAIN is the dict's key set.    *)
(* Words are small integers, as in the module-level asserts of the source. *)
(* Where the source iterates a dict or a set, the model iterates in        *)
(* ascending key order (Python's order is insertion/hash order).           *)
(***************************************************************************)
EXTENDS Integers, Sequences, FiniteSets, TLC

\* ---------------------------------------------------------------- bounds
\* largest value a driver stores with m[a,b] = v, and cap of m[a,b] += 1
MaxVal == 2
\* longest bigram list given to from_bigram_list
MaxLen == 3
\* longest word list given to Classes(...)
MaxListLen == 4

\* the words a driver uses as matrix keys
Words == {1, 2}
Values == 0..MaxVal
Bigrams == Words \X Words
BigramLists == UNION {[1..n -> Bigrams] : n \in 0..MaxLen}
Dims == {"row", "column", "diagonal"}
\* the words a driver puts in a Classes word list or looks up
ClassWords == {1, 2, 3, 4}
WordLists == UNION {[1..n -> ClassWords] : n \in 0..MaxListLen}
\* longest list of words given to pairs
MaxWords == 4
\* largest distance given to pairs
MaxDistance == 5
\* the words of a text
TextWords == {1, 2, 3}
Texts == UNION {[1..n -> TextWords] : n \in 0..MaxWords}
Distances == 0..MaxDistance
PairLists == UNION {[1..n -> TextWords \X TextWords] : n \in 0..MaxLen}
Vocabularies == SUBSET TextWords

VARIABLES
    rows,          \* WordIndexedSparseMatrix.rows : word1 -> (word2 -> value)
    cols,          \* WordIndexedSparseMatrix.cols : word2 -> (word1 -> value)
    classes_list,  \* Classes.classes_list : list of class labels
    classes,       \* Classes.classes : word -> index into classes_list
    classes_set,   \* Classes.classes_set : list(set(classes_list))
    call,          \* the last call made by the driver, with its arguments
    ret,           \* what that call returned or raised
    pre,           \* the objects' fields when that call was made
    written        \* the pairs written to the matrix since it was created

vars == <<rows, cols, classes_list, classes, classes_set, call, ret, pre, written>>

\* ------------------------------------------------------------ dict helpers
EmptyDict == <<>>

\* d[k] = v on a dict
DictSet(d, k, v) == [x \in (DOMAIN d) \cup {k} |-> IF x = k THEN v ELSE d[x]]

Range(s) == {s[i] : i \in DOMAIN s}

Min(S) == CHOOSE x \in S : \A y \in S : x <= y

RECURSIVE SortedSeq(_)
\* the elements of a finite set of integers, ascending
SortedSeq(S) == IF S = {} THEN <<>> ELSE <<Min(S)>> \o SortedSeq(S \ {Min(S)})

\* a call's outcome: a returned value, or the exception it raised
Returned(v) == [err |-> "", val |-> v]
Raised(e) == [err |-> e, val |-> 0]

\* ------------------------------------------------- WordIndexedSparseMatrix
\* __init__
Matrix_init == [rows |-> EmptyDict, cols |-> EmptyDict]

\* __getitem__ with the indexes swapped
getitem_transposed(m, word1, word2) ==
    IF word2 \in DOMAIN m.rows /\ word1 \in DOMAIN m.rows[word2]
    THEN m.rows[word2][word1]
    ELSE 0

\* __getitem__: m[word1, word2]
getitem(m, word1, word2) ==
    IF word1 \in DOMAIN m.rows /\ word2 \in DOMAIN m.rows[word1]
    THEN m.rows[word1][word2]
    ELSE 0

\* __setitem__ that forgets the column index
setitem_rows_only(m, word1, word2, value) ==
    LET rows1 == IF word1 \notin DOMAIN m.rows
                 THEN DictSet(m.rows, word1, EmptyDict) ELSE m.rows
        cols1 == IF word2 \notin DOMAIN m.cols
                 THEN DictSet(m.cols, word2, EmptyDict) ELSE m.cols
    IN  [rows |-> DictSet(rows1, word1, DictSet(rows1[word1], word2, value)),
         cols |-> cols1]

\* __setitem__ that stores the value under (word2, word1) as well
setitem_symmetric(m, word1, word2, value) ==
    LET ks == {word1, word2}
        rows1 == [k \in (DOMAIN m.rows) \cup ks |->
                    IF k \in DOMAIN m.rows THEN m.rows[k] ELSE EmptyDict]
        cols1 == [k \in (DOMAIN m.cols) \cup ks |->
                    IF k \in DOMAIN m.cols THEN m.cols[k] ELSE EmptyDict]
        rows2 == DictSet(rows1, word1, DictSet(rows1[word1], word2, value))
        cols2 == DictSet(cols1, word2, DictSet(cols1[word2], word1, value))
    IN  [rows |-> DictSet(rows2, word2, DictSet(rows2[word2], word1, value)),
         cols |-> DictSet(cols2, word1, DictSet(cols2[word1], word2, value))]

\* __setitem__ that evicts the entry when the value is 0
setitem_prune_zero(m, word1, word2, value) ==
    LET rows1 == IF word1 \notin DOMAIN m.rows
                 THEN DictSet(m.rows, word1, EmptyDict) ELSE m.rows
        cols1 == IF word2 \notin DOMAIN m.cols
                 THEN DictSet(m.cols, word2, EmptyDict) ELSE m.cols
        Drop(d, k) == [x \in (DOMAIN d) \ {k} |-> d[x]]
    IN  IF value = 0
        THEN [rows |-> DictSet(rows1, word1, Drop(rows1[word1], word2)),
              cols |-> DictSet(cols1, word2, Drop(cols1[word2], word1))]
        ELSE [rows |-> DictSet(rows1, word1, DictSet(rows1[word1], word2, value)),
              cols |-> DictSet(cols1, word2, DictSet(cols1[word2], word1, value))]

\* __setitem__: m[word1, word2] = value
setitem(m, word1, word2, value) ==
    LET rows1 == IF word1 \notin DOMAIN m.rows
                 THEN DictSet(m.rows, word1, EmptyDict) ELSE m.rows
        cols1 == IF word2 \notin DOMAIN m.cols
                 THEN DictSet(m.cols, word2, EmptyDict) ELSE m.cols
    IN  [rows |-> DictSet(rows1, word1, DictSet(rows1[word1], word2, value)),
         cols |-> DictSet(cols1, word2, DictSet(cols1[word2], word1, value))]

\* m[word1, word2] += 1 : __getitem__, add one, __setitem__
increment(m, word1, word2) == setitem(m, word1, word2, getitem(m, word1, word2) + 1)

RECURSIVE bigram_loop_set_one(_, _, _)
\* the loop of from_bigram_list with "= 1" in place of "+= 1"
bigram_loop_set_one(m, bigram_list, i) ==
    IF i > Len(bigram_list) THEN m
    ELSE bigram_loop_set_one(setitem(m, bigram_list[i][1], bigram_list[i][2], 1),
                             bigram_list, i + 1)

RECURSIVE bigram_loop(_, _, _)
\* the loop of from_bigram_list, from its i-th bigram on
bigram_loop(m, bigram_list, i) ==
    IF i > Len(bigram_list) THEN m
    ELSE bigram_loop(increment(m, bigram_list[i][1], bigram_list[i][2]),
                     bigram_list, i + 1)

\* from_bigram_list: a fresh matrix holding the counts of the bigrams
from_bigram_list(bigram_list) == bigram_loop(Matrix_init, bigram_list, 1)

\* get_sparse_column: self.cols[key], KeyError on an unknown key
get_sparse_column(m, key) ==
    IF key \in DOMAIN m.cols THEN Returned(m.cols[key]) ELSE Raised("KeyError")

\* get_sparse_row that answers an unknown key with an empty dict
get_sparse_row_lenient(m, key) ==
    IF key \in DOMAIN m.rows THEN Returned(m.rows[key]) ELSE Returned(EmptyDict)

\* get_sparse_row: self.rows[key], KeyError on an unknown key
get_sparse_row(m, key) ==
    IF key \in DOMAIN m.rows THEN Returned(m.rows[key]) ELSE Raised("KeyError")

\* union_keys that keeps the keys present in both dicts
union_keys_both(m, key1, key2, dim) ==
    IF dim \notin {"row", "column"} THEN Raised("ValueError")
    ELSE LET dict1 == IF dim = "row" THEN get_sparse_row(m, key1)
                      ELSE get_sparse_column(m, key1)
             dict2 == IF dim = "row" THEN get_sparse_row(m, key2)
                      ELSE get_sparse_column(m, key2)
         IN  IF dict1.err # "" THEN dict1
             ELSE IF dict2.err # "" THEN dict2
             ELSE Returned((DOMAIN dict1.val) \cap (DOMAIN dict2.val))

\* union_keys without the axis check: any dim but "row" selects the columns
union_keys_unchecked(m, key1, key2, dim) ==
    LET dict1 == IF dim = "row" THEN get_sparse_row(m, key1)
                 ELSE get_sparse_column(m, key1)
        dict2 == IF dim = "row" THEN get_sparse_row(m, key2)
                 ELSE get_sparse_column(m, key2)
    IN  IF dict1.err # "" THEN dict1
        ELSE IF dict2.err # "" THEN dict2
        ELSE Returned({} \cup (DOMAIN dict1.val) \cup (DOMAIN dict2.val))

\* union_keys: the axis check, the two lookups, the union of their key sets
union_keys(m, key1, key2, dim) ==
    IF dim \notin {"row", "column"} THEN Raised("ValueError")
    ELSE LET dict1 == IF dim = "row" THEN get_sparse_row(m, key1)
                      ELSE get_sparse_column(m, key1)
             dict2 == IF dim = "row" THEN get_sparse_row(m, key2)
                      ELSE get_sparse_column(m, key2)
         IN  IF dict1.err # "" THEN dict1
             ELSE IF dict2.err # "" THEN dict2
             ELSE Returned({} \cup (DOMAIN dict1.val) \cup (DOMAIN dict2.val))

RECURSIVE Flatten(_)
Flatten(ss) == IF ss = <<>> THEN <<>> ELSE Head(ss) \o Flatten(Tail(ss))

\* values: one value per stored entry, rows outermost
values(m) ==
    LET rk == SortedSeq(DOMAIN m.rows)
        RowVals(k1) == LET ck == SortedSeq(DOMAIN m.rows[k1])
                       IN  [j \in 1..Len(ck) |-> m.rows[k1][ck[j]]]
    IN  Flatten([i \in 1..Len(rk) |-> RowVals(rk[i])])

\* keys: one (key1, key2) per stored entry, rows outermost
keys(m) ==
    LET rk == SortedSeq(DOMAIN m.rows)
        RowKeys(k1) == LET ck == SortedSeq(DOMAIN m.rows[k1])
                       IN  [j \in 1..Len(ck) |-> <<k1, ck[j]>>]
    IN  Flatten([i \in 1..Len(rk) |-> RowKeys(rk[i])])

\* ------------------------------------------------------------------ Classes
\* list(set(classes_list)): the distinct labels (ascending, as for small ints)
unique_list(lst) == SortedSeq(Range(lst))

\* __init__ whose indexes are positions of the deduplicated list
Classes_init_set_index(lst) ==
    [classes_list |-> lst,
     classes |-> [key \in Range(lst) |->
                    CHOOSE idx \in DOMAIN unique_list(lst) : unique_list(lst)[idx] = key],
     classes_set |-> unique_list(lst)]

\* __init__: every word points at its last position in classes_list
Classes_init(lst) ==
    [classes_list |-> lst,
     classes |-> [key \in Range(lst) |->
                    CHOOSE idx \in DOMAIN lst :
                        lst[idx] = key /\ \A j \in DOMAIN lst : lst[j] = key => j <= idx],
     classes_set |-> unique_list(lst)]

\* get_unique_classes
get_unique_classes(c) == c.classes_set

\* map_word_to_class that answers an unknown word with no label (None)
map_word_to_class_strict(c, word) ==
    IF word \in DOMAIN c.classes
    THEN c.classes_list[c.classes[word]]
    ELSE 0

\* map_word_to_class: the label at the word's index, the word itself if unknown
map_word_to_class(c, word) ==
    IF word \in DOMAIN c.classes
    THEN c.classes_list[c.classes[word]]
    ELSE word

\* map_bigram_to_classes
map_bigram_to_classes(c, bigram) ==
    <<map_word_to_class(c, bigram[1]), map_word_to_class(c, bigram[2])>>

\* merge_classes that repoints the words of class2 but does not relabel the list
merge_classes_no_relabel(c, class1, class2) ==
    IF class1 \notin DOMAIN c.classes \/ class2 \notin DOMAIN c.classes
    THEN [c |-> c, ret |-> Raised("KeyError")]
    ELSE LET idx1 == c.classes[class1]
             idx2 == c.classes[class2]
             cl == [cls \in DOMAIN c.classes |->
                      IF c.classes[cls] = idx2 THEN idx1 ELSE c.classes[cls]]
         IN  [c |-> [classes_list |-> c.classes_list, classes |-> cl,
                     classes_set |-> unique_list(c.classes_list)],
              ret |-> Returned(0)]

\* merge_classes that merges class1 into class2 (arguments swapped)
merge_classes_swapped(c, class1, class2) ==
    IF class1 \notin DOMAIN c.classes \/ class2 \notin DOMAIN c.classes
    THEN [c |-> c, ret |-> Raised("KeyError")]
    ELSE LET idx1 == c.classes[class2]
             idx2 == c.classes[class1]
             cl == [cls \in DOMAIN c.classes |->
                      IF c.classes[cls] = idx2 THEN idx1 ELSE c.classes[cls]]
             lst == [i \in DOMAIN c.classes_list |->
                      IF c.classes_list[i] = class1 THEN class2 ELSE c.classes_list[i]]
         IN  [c |-> [classes_list |-> lst, classes |-> cl,
                     classes_set |-> unique_list(lst)],
              ret |-> Returned(0)]

\* merge_classes that relabels class2 in the list but repoints no word
merge_classes_relabel_only(c, class1, class2) ==
    IF class1 \notin DOMAIN c.classes \/ class2 \notin DOMAIN c.classes
    THEN [c |-> c, ret |-> Raised("KeyError")]
    ELSE LET lst == [i \in DOMAIN c.classes_list |->
                      IF c.classes_list[i] = class2 THEN class1 ELSE c.classes_list[i]]
         IN  [c |-> [classes_list |-> lst, classes |-> c.classes,
                     classes_set |-> unique_list(lst)],
              ret |-> Returned(0)]

\* merge_classes that repoints only the word class2 itself
merge_classes_pointer_only(c, class1, class2) ==
    IF class1 \notin DOMAIN c.classes \/ class2 \notin DOMAIN c.classes
    THEN [c |-> c, ret |-> Raised("KeyError")]
    ELSE LET idx1 == c.classes[class1]
             cl == [cls \in DOMAIN c.classes |->
                      IF cls = class2 THEN idx1 ELSE c.classes[cls]]
         IN  [c |-> [classes_list |-> c.classes_list, classes |-> cl,
                     classes_set |-> unique_list(c.classes_list)],
              ret |-> Returned(0)]

\* merge_classes: the two index lookups (KeyError on an unknown word), the
\* repointing of the words at idx2, the relabelling of class2 in the list,
\* the refresh of classes_set
merge_classes(c, class1, class2) ==
    IF class1 \notin DOMAIN c.classes \/ class2 \notin DOMAIN c.classes
    THEN [c |-> c, ret |-> Raised("KeyError")]
    ELSE LET idx1 == c.classes[class1]
             idx2 == c.classes[class2]
             cl == [cls \in DOMAIN c.classes |->
                      IF c.classes[cls] = idx2 THEN idx1 ELSE c.classes[cls]]
             lst == [i \in DOMAIN c.classes_list |->
                      IF c.classes_list[i] = class2 THEN class1 ELSE c.classes_list[i]]
         IN  [c |-> [classes_list |-> lst, classes |-> cl,
                     classes_set |-> unique_list(lst)],
              ret |-> Returned(0)]

RECURSIVE class_members_loop(_, _, _, _)
\* the loop of get_class_members over the words of self.classes, from the
\* i-th on: class_members[cls].append(word) on a defaultdict(list)
class_members_loop(c, words, i, class_members) ==
    IF i > Len(words) THEN class_members
    ELSE LET cls == map_word_to_class(c, words[i])
             members == IF cls \in DOMAIN class_members THEN class_members[cls] ELSE <<>>
         IN  class_members_loop(c, words, i + 1,
                                DictSet(class_members, cls, Append(members, words[i])))

\* get_class_members that stores [word] in place of appending the word
get_class_members_overwrite(c) ==
    LET labels == {map_word_to_class(c, word) : word \in DOMAIN c.classes}
    IN  [cls \in labels |->
            LET ws == {word \in DOMAIN c.classes : map_word_to_class(c, word) = cls}
            IN  <<CHOOSE w \in ws : \A x \in ws : x <= w>>]

\* get_class_members: class label -> list of the words mapped to it
get_class_members(c) ==
    class_members_loop(c, SortedSeq(DOMAIN c.classes), 1, EmptyDict)

\* --------------------------------------------------------------- dataset.py
\* lst[start:] for start >= 0
SliceFrom(lst, start) == SubSeq(lst, start + 1, Len(lst))

\* zip(a, b): pairs up to the end of the shorter sequence
Zip(a, b) ==
    [i \in 1..(IF Len(a) <= Len(b) THEN Len(a) ELSE Len(b)) |-> <<a[i], b[i]>>]

\* pairs that skips one word more than the distance
pairs_off_by_one(list_of_words, distance) ==
    Zip(list_of_words, SliceFrom(list_of_words, distance + 1))

\* pairs: what zip(list_of_words, list_of_words[distance:]) yields
pairs(list_of_words, distance) ==
    Zip(list_of_words, SliceFrom(list_of_words, distance))

RECURSIVE filter_loop_either(_, _, _, _)
\* the loop of filter_pairs_by_vocabulary with "and" in place of "or"
filter_loop_either(prs, vocabulary, i, yielded) ==
    IF i > Len(prs) THEN yielded
    ELSE IF prs[i][1] \notin vocabulary /\ prs[i][2] \notin vocabulary
         THEN filter_loop_either(prs, vocabulary, i + 1, yielded)
         ELSE filter_loop_either(prs, vocabulary, i + 1, Append(yielded, prs[i]))

RECURSIVE filter_loop(_, _, _, _)
\* the loop of filter_pairs_by_vocabulary from the i-th pair on: continue if
\* either word is not in the vocabulary, else yield the pair
filter_loop(prs, vocabulary, i, yielded) ==
    IF i > Len(prs) THEN yielded
    ELSE IF prs[i][1] \notin vocabulary \/ prs[i][2] \notin vocabulary
         THEN filter_loop(prs, vocabulary, i + 1, yielded)
         ELSE filter_loop(prs, vocabulary, i + 1, Append(yielded, prs[i]))

\* filter_pairs_by_vocabulary: what the generator yields, in order
filter_pairs_by_vocabulary(prs, vocabulary) == filter_loop(prs, vocabulary, 1, <<>>)

\* ------------------------------------------------------------------- state
\* the matrix object and the Classes object as the operators above take them
M == [rows |-> rows, cols |-> cols]
C == [classes_list |-> classes_list, classes |-> classes, classes_set |-> classes_set]

Snapshot == [m |-> M, c |-> C]

Call(op, k1, k2, v, dim, lst) ==
    [op |-> op, k1 |-> k1, k2 |-> k2, v |-> v, dim |-> dim, lst |-> lst]

MatrixUnchanged == UNCHANGED <<rows, cols, written>>
ClassesUnchanged == UNCHANGED <<classes_list, classes, classes_set>>

\* a word of the universe that is its own class label
IsRepresentative(c, w) == w \in DOMAIN c.classes /\ map_word_to_class(c, w) = w

\* ---------------------------------------------------------- matrix actions
\* matrix = WordIndexedSparseMatrix(); the driver holds the bigram list of
\* its corpus, from which it may build the matrix instead
MatrixInit ==
    \E bigram_list \in BigramLists :
    /\ rows = Matrix_init.rows
    /\ cols = Matrix_init.cols
    /\ written = {}
    /\ classes_list = Classes_init(<<>>).classes_list
    /\ classes = Classes_init(<<>>).classes
    /\ classes_set = Classes_init(<<>>).classes_set
    /\ call = Call("WordIndexedSparseMatrix", 0, 0, 0, "", bigram_list)
    /\ ret = Returned(0)
    /\ pre = [m |-> Matrix_init, c |-> Classes_init(<<>>)]

\* matrix[a, b] = v
SetItem(a, b, v) ==
    /\ LET m == setitem(M, a, b, v)
       IN  rows' = m.rows /\ cols' = m.cols
    /\ written' = written \cup {<<a, b>>}
    /\ call' = Call("set", a, b, v, "", <<>>)
    /\ ret' = Returned(0)
    /\ pre' = Snapshot
    /\ ClassesUnchanged

\* matrix[a, b] += 1
Increment(a, b) ==
    /\ getitem(M, a, b) < MaxVal
    /\ LET m == increment(M, a, b)
       IN  rows' = m.rows /\ cols' = m.cols
    /\ written' = written \cup {<<a, b>>}
    /\ call' = Call("increment", a, b, 0, "", <<>>)
    /\ ret' = Returned(0)
    /\ pre' = Snapshot
    /\ ClassesUnchanged

\* matrix = WordIndexedSparseMatrix.from_bigram_list(bigram_list): the bulk
\* constructor, called once, before the driver works on the matrix
FromBigramList(bigram_list) ==
    /\ call.op = "WordIndexedSparseMatrix"
    /\ bigram_list = call.lst
    /\ LET m == from_bigram_list(bigram_list)
       IN  rows' = m.rows /\ cols' = m.cols
    /\ written' = Range(bigram_list)
    /\ call' = Call("from_bigram_list", 0, 0, 0, "", bigram_list)
    /\ ret' = Returned(0)
    /\ pre' = Snapshot
    /\ ClassesUnchanged

\* matrix[a, b]
GetItem(a, b) ==
    /\ call' = Call("get", a, b, 0, "", <<>>)
    /\ ret' = Returned(getitem(M, a, b))
    /\ pre' = Snapshot
    /\ MatrixUnchanged /\ ClassesUnchanged

\* matrix.get_sparse_row(key)
GetSparseRow(key) ==
    /\ call' = Call("get_sparse_row", key, 0, 0, "", <<>>)
    /\ ret' = get_sparse_row(M, key)
    /\ pre' = Snapshot
    /\ MatrixUnchanged /\ ClassesUnchanged

\* matrix.get_sparse_column(key)
GetSparseColumn(key) ==
    /\ call' = Call("get_sparse_column", key, 0, 0, "", <<>>)
    /\ ret' = get_sparse_column(M, key)
    /\ pre' = Snapshot
    /\ MatrixUnchanged /\ ClassesUnchanged

\* matrix.union_keys(key1, key2, dim)
UnionKeys(key1, key2, dim) ==
    /\ call' = Call("union_keys", key1, key2, 0, dim, <<>>)
    /\ ret' = union_keys(M, key1, key2, dim)
    /\ pre' = Snapshot
    /\ MatrixUnchanged /\ ClassesUnchanged

\* matrix.values()
Values_ ==
    /\ call' = Call("values", 0, 0, 0, "", <<>>)
    /\ ret' = Returned(values(M))
    /\ pre' = Snapshot
    /\ MatrixUnchanged /\ ClassesUnchanged

\* matrix.keys()
Keys_ ==
    /\ call' = Call("keys", 0, 0, 0, "", <<>>)
    /\ ret' = Returned(keys(M))
    /\ pre' = Snapshot
    /\ MatrixUnchanged /\ ClassesUnchanged

MatrixNext ==
    \/ \E a \in Words, b \in Words, v \in Values : SetItem(a, b, v)
    \/ \E a \in Words, b \in Words : Increment(a, b)
    \/ \E bigram_list \in BigramLists : FromBigramList(bigram_list)
    \/ \E a \in Words, b \in Words : GetItem(a, b)
    \/ \E key \in Words : GetSparseRow(key)
    \/ \E key \in Words : GetSparseColumn(key)
    \/ \E key1 \in Words, key2 \in Words, dim \in Dims : UnionKeys(key1, key2, dim)
    \/ Values_
    \/ Keys_

\* a driver working on one matrix
MatrixSpec == MatrixInit /\ [][MatrixNext]_vars

\* --------------------------------------------------------- Classes actions
\* classes = Classes(lst)
ClassesInit ==
    \E lst \in WordLists :
        /\ LET c == Classes_init(lst)
           IN  classes_list = c.classes_list /\ classes = c.classes
               /\ classes_set = c.classes_set
        /\ rows = Matrix_init.rows
        /\ cols = Matrix_init.cols
        /\ written = {}
        /\ call = Call("Classes", 0, 0, 0, "", lst)
        /\ ret = Returned(0)
        /\ pre = [m |-> Matrix_init, c |-> Classes_init(lst)]

\* classes.merge_classes(class1, class2)
MergeClasses(class1, class2) ==
    LET r == merge_classes(C, class1, class2)
    IN  /\ classes_list' = r.c.classes_list
        /\ classes' = r.c.classes
        /\ classes_set' = r.c.classes_set
        /\ call' = Call("merge_classes", class1, class2, 0, "", <<>>)
        /\ ret' = r.ret
        /\ pre' = Snapshot
        /\ MatrixUnchanged

\* merge_classes called as its docstring and the driver intend: both
\* arguments are current class labels
MergeRepresentatives(class1, class2) ==
    /\ IsRepresentative(C, class1)
    /\ IsRepresentative(C, class2)
    /\ MergeClasses(class1, class2)

\* classes.map_word_to_class(word)
MapWordToClass(word) ==
    /\ call' = Call("map_word_to_class", word, 0, 0, "", <<>>)
    /\ ret' = Returned(map_word_to_class(C, word))
    /\ pre' = Snapshot
    /\ MatrixUnchanged /\ ClassesUnchanged

\* classes.map_bigram_to_classes((word1, word2))
MapBigramToClasses(word1, word2) ==
    /\ call' = Call("map_bigram_to_classes", word1, word2, 0, "", <<>>)
    /\ ret' = Returned(map_bigram_to_classes(C, <<word1, word2>>))
    /\ pre' = Snapshot
    /\ MatrixUnchanged /\ ClassesUnchanged

\* classes.get_unique_classes()
GetUniqueClasses ==
    /\ call' = Call("get_unique_classes", 0, 0, 0, "", <<>>)
    /\ ret' = Returned(get_unique_classes(C))
    /\ pre' = Snapshot
    /\ MatrixUnchanged /\ ClassesUnchanged

\* classes.get_class_members()
GetClassMembers ==
    /\ call' = Call("get_class_members", 0, 0, 0, "", <<>>)
    /\ ret' = Returned(get_class_members(C))
    /\ pre' = Snapshot
    /\ MatrixUnchanged /\ ClassesUnchanged

ClassesReads ==
    \/ \E word \in ClassWords : MapWordToClass(word)
    \/ GetUniqueClasses
    \/ GetClassMembers

\* any two words may be given to merge_classes
ClassesNext ==
    \/ \E class1 \in ClassWords, class2 \in ClassWords : MergeClasses(class1, class2)
    \/ ClassesReads

\* merge_classes is only given current class labels
RepClassesNext ==
    \/ \E class1 \in ClassWords, class2 \in ClassWords : MergeRepresentatives(class1, class2)
    \/ ClassesReads

\* merges of class labels, and the two lookups
LookupNext ==
    \/ \E class1 \in ClassWords, class2 \in ClassWords : MergeRepresentatives(class1, class2)
    \/ \E word \in ClassWords : MapWordToClass(word)
    \/ \E word1 \in ClassWords, word2 \in ClassWords : MapBigramToClasses(word1, word2)

\* a driver that may give merge_classes any two words
ClassesSpec == ClassesInit /\ [][ClassesNext]_vars

\* a driver that keeps the precondition of merge_classes
RepClassesSpec == ClassesInit /\ [][RepClassesNext]_vars

\* a driver that merges and looks words and bigrams up
LookupSpec == ClassesInit /\ [][LookupNext]_vars

\* --------------------------------------------------------- dataset actions
\* the driver holds either a text and a distance, or a list of pairs and a
\* vocabulary
DatasetInit ==
    /\ rows = Matrix_init.rows
    /\ cols = Matrix_init.cols
    /\ written = {}
    /\ classes_list = Classes_init(<<>>).classes_list
    /\ classes = Classes_init(<<>>).classes
    /\ classes_set = Classes_init(<<>>).classes_set
    /\ ret = Returned(0)
    /\ pre = [m |-> Matrix_init, c |-> Classes_init(<<>>)]
    /\ \/ \E list_of_words \in Texts, distance \in Distances :
              call = Call("text", distance, 0, 0, "", list_of_words)
       \/ \E prs \in PairLists, vocabulary \in Vocabularies :
              call = Call("bigrams", 0, 0, vocabulary, "", prs)

\* list(pairs(list_of_words, distance))
Pairs ==
    /\ call.op = "text"
    /\ call' = Call("pairs", call.k1, 0, 0, "", call.lst)
    /\ ret' = Returned(pairs(call.lst, call.k1))
    /\ UNCHANGED pre
    /\ MatrixUnchanged /\ ClassesUnchanged

\* list(filter_pairs_by_vocabulary(prs, vocabulary))
FilterPairsByVocabulary ==
    /\ call.op = "bigrams"
    /\ call' = Call("filter_pairs_by_vocabulary", 0, 0, call.v, "", call.lst)
    /\ ret' = Returned(filter_pairs_by_vocabulary(call.lst, call.v))
    /\ UNCHANGED pre
    /\ MatrixUnchanged /\ ClassesUnchanged

DatasetNext ==
    \/ Pairs
    \/ FilterPairsByVocabulary

\* a driver preparing the bigrams of a text
DatasetSpec == DatasetInit /\ [][DatasetNext]_vars

\* ------------------------------------------------------------------ claims
\* number of positions of lst that hold x
Occurrences(lst, x) == Cardinality({i \in DOMAIN lst : lst[i] = x})

\* the key set of a lookup's outcome, empty when the lookup failed
KeysOf(r) == IF r.err = "" THEN DOMAIN r.val ELSE {}

\* C1: in every state reached by set, increment and from_bigram_list, b is a
\* key of row a iff a is a key of column b, and then
\* get_sparse_row(a)[b] = get_sparse_column(b)[a] = get(a, b).
C1_IndexesAgree ==
    \A a \in Words, b \in Words :
        /\ (b \in KeysOf(get_sparse_row(M, a))) <=> (a \in KeysOf(get_sparse_column(M, b)))
        /\ b \in KeysOf(get_sparse_row(M, a)) =>
              /\ get_sparse_row(M, a).val[b] = get_sparse_column(M, b).val[a]
              /\ get_sparse_row(M, a).val[b] = getitem(M, a, b)

\* an increment has just raised (1,2) to 2 while (2,1) was never written
C1_Witness ==
    /\ call.op = "increment" /\ call.k1 = 1 /\ call.k2 = 2
    /\ getitem(M, 1, 2) = 2
    /\ <<2, 1>> \notin written
    /\ <<2, 2>> \in written

\* C2: the matrix built by from_bigram_list(P) holds, for every pair (a,b),
\* the number of occurrences of (a,b) in P (0 for pairs not in P; (b,a) is
\* counted on its own).
C2_CountsAreMultiplicities ==
    call.op = "from_bigram_list" =>
        \A a \in Words, b \in Words : getitem(M, a, b) = Occurrences(call.lst, <<a, b>>)

\* a list with a repeated pair, its reversed pair once, and an absent pair
C2_Witness ==
    /\ call.op = "from_bigram_list"
    /\ Occurrences(call.lst, <<1, 2>>) = 2
    /\ Occurrences(call.lst, <<2, 1>>) = 1
    /\ getitem(M, 1, 2) = 2 /\ getitem(M, 2, 1) = 1 /\ getitem(M, 1, 1) = 0

\* the bulk constructor was given the empty list
C2_WitnessEmpty == call.op = "from_bigram_list" /\ call.lst = <<>> /\ rows = EmptyDict

\* C3: after merge_classes(c1, c2) on current class labels, every word whose
\* class was c2 maps to c1 and every other word maps to what it mapped to.
C3_MergeRepoints ==
    call.op = "merge_classes" =>
        \A w \in ClassWords :
            /\ map_word_to_class(pre.c, w) = call.k2 => map_word_to_class(C, w) = call.k1
            /\ map_word_to_class(pre.c, w) # call.k2 =>
                  map_word_to_class(C, w) = map_word_to_class(pre.c, w)

\* a class of two words was merged into another class while a third stayed
C3_Witness ==
    /\ call.op = "merge_classes" /\ ret.err = ""
    /\ call.k1 # call.k2
    /\ Cardinality({w \in DOMAIN pre.c.classes :
                        map_word_to_class(pre.c, w) = call.k2}) >= 2
    /\ \E w \in DOMAIN classes : map_word_to_class(C, w) # call.k1

\* C4 as stated: after merge_classes(c1, c2) on any current class labels,
\* get_unique_classes() has lost c2 and nothing else.
C4_Original ==
    call.op = "merge_classes" =>
        /\ call.k2 \notin Range(get_unique_classes(C))
        /\ Cardinality(Range(get_unique_classes(C)))
              = Cardinality(Range(get_unique_classes(pre.c))) - 1
        /\ Range(get_unique_classes(C)) = Range(get_unique_classes(pre.c)) \ {call.k2}

\* C4 amended: the same for two distinct current class labels; merging a
\* label with itself leaves get_unique_classes() as it was.
C4_UniqueClassesLoseClass2 ==
    call.op = "merge_classes" =>
        IF call.k1 # call.k2
        THEN /\ call.k2 \notin Range(get_unique_classes(C))
             /\ Cardinality(Range(get_unique_classes(C)))
                   = Cardinality(Range(get_unique_classes(pre.c))) - 1
             /\ Range(get_unique_classes(C))
                   = Range(get_unique_classes(pre.c)) \ {call.k2}
             /\ Len(get_unique_classes(C)) = Cardinality(Range(get_unique_classes(C)))
        ELSE get_unique_classes(C) = get_unique_classes(pre.c)

\* two distinct labels were merged on a list that held class2 twice
C4_Witness ==
    /\ call.op = "merge_classes" /\ ret.err = ""
    /\ call.k1 # call.k2
    /\ Occurrences(pre.c.classes_list, call.k2) >= 2
    /\ Len(get_unique_classes(C)) = 1

\* C5: in every state reached by merges of current class labels, every word
\* of the universe has a label, the label is a word of the universe, and the
\* label maps to itself.
C5_LookupIdempotent ==
    \A w \in DOMAIN classes :
        /\ classes[w] \in DOMAIN classes_list
        /\ map_word_to_class(C, w) \in DOMAIN classes
        /\ map_word_to_class(C, map_word_to_class(C, w)) = map_word_to_class(C, w)

\* after two merges all three words are in one class whose label is not 1
C5_Witness ==
    /\ call.op = "merge_classes" /\ ret.err = ""
    /\ DOMAIN classes = {1, 2, 3}
    /\ \A w \in DOMAIN classes : map_word_to_class(C, w) = 3
    /\ map_word_to_class(pre.c, 1) = 2

\* C6: after m[a,b] = v, get(a,b) is v whatever it was, and get(x,y) is what
\* it was for every other pair, (b,a) included.
C6_SetOverwritesOneEntry ==
    call.op = "set" =>
        /\ getitem(M, call.k1, call.k2) = call.v
        /\ \A x \in Words, y \in Words :
              <<x, y>> # <<call.k1, call.k2>> => getitem(M, x, y) = getitem(pre.m, x, y)

\* a stored non-zero value was overwritten by another while (b,a) held a third
C6_Witness ==
    /\ call.op = "set" /\ call.k1 # call.k2
    /\ getitem(pre.m, call.k1, call.k2) = 2 /\ call.v = 1
    /\ getitem(M, call.k2, call.k1) = 2

\* C7: get(a,b) of a pair never written is 0, and get leaves the matrix as it
\* was: same keys(), same values(), same outcome of get_sparse_row(a) and
\* get_sparse_column(b).
C7_GetDefaultsToZero ==
    call.op = "get" =>
        /\ ret.err = ""
        /\ <<call.k1, call.k2>> \notin written => ret.val = 0
        /\ M = pre.m
        /\ keys(M) = keys(pre.m) /\ values(M) = values(pre.m)
        /\ get_sparse_row(M, call.k1) = get_sparse_row(pre.m, call.k1)
        /\ get_sparse_column(M, call.k2) = get_sparse_column(pre.m, call.k2)

\* got 0 for an unwritten (a,b) whose row a and column b exist, (b,a) stored
C7_Witness ==
    /\ call.op = "get" /\ ret.val = 0
    /\ <<call.k1, call.k2>> \notin written
    /\ call.k1 \in DOMAIN rows /\ call.k2 \in DOMAIN cols
    /\ getitem(M, call.k2, call.k1) > 0

\* got 0 for a pair whose row and column do not exist, and they still do not
C7_WitnessUnseen ==
    /\ call.op = "get" /\ ret.val = 0
    /\ get_sparse_row(M, call.k1).err = "KeyError"
    /\ get_sparse_column(M, call.k2).err = "KeyError"
    /\ rows # EmptyDict

C8_WitnessColumn ==
    /\ call.op = "union_keys" /\ call.dim = "column"
    /\ call.k1 = call.k2
    /\ call.k1 \in DOMAIN cols /\ DOMAIN cols[call.k1] = {2}
    /\ ret.err = "" /\ ret.val = {2}

\* C9: get_sparse_row(a) succeeds iff some written pair has a first, and
\* raises KeyError otherwise; get_sparse_column(b) likewise for the second
\* component; union_keys on a valid axis raises KeyError if either key is
\* unknown on it; the matrix is unchanged, and get on such keys is 0.
C9_UnknownKeysRaise ==
    /\ call.op = "get_sparse_row" =>
          /\ ret.err = "" <=> \E b \in Words : <<call.k1, b>> \in written
          /\ ret.err \in {"", "KeyError"}
          /\ ret.err = "KeyError" => \A b \in Words : getitem(M, call.k1, b) = 0
          /\ M = pre.m
    /\ call.op = "get_sparse_column" =>
          /\ ret.err = "" <=> \E a \in Words : <<a, call.k1>> \in written
          /\ ret.err \in {"", "KeyError"}
          /\ ret.err = "KeyError" => \A a \in Words : getitem(M, a, call.k1) = 0
          /\ M = pre.m
    /\ (call.op = "union_keys" /\ call.dim = "row") =>
          /\ (\E k \in {call.k1, call.k2} : \A b \in Words : <<k, b>> \notin written)
                => ret.err = "KeyError"
          /\ M = pre.m
    /\ (call.op = "union_keys" /\ call.dim = "column") =>
          /\ (\E k \in {call.k1, call.k2} : \A a \in Words : <<a, k>> \notin written)
                => ret.err = "KeyError"
          /\ M = pre.m
    /\ call.op = "get" => ret.err = ""

\* get_sparse_row raised for a word that is a column key but no row key
C9_Witness ==
    /\ call.op = "get_sparse_row" /\ ret.err = "KeyError"
    /\ call.k1 \in DOMAIN cols
    /\ rows # EmptyDict

\* union_keys raised because its second key is unknown on the axis
C9_WitnessUnion ==
    /\ call.op = "union_keys" /\ call.dim = "column" /\ ret.err = "KeyError"
    /\ call.k1 \in DOMAIN cols /\ call.k2 \notin DOMAIN cols

\* C10 as stated: merge_classes(c1, c2) raises and leaves the partition as it
\* was whenever c1 or c2 is not a current class label (a word outside the
\* universe, or a word merged away into another class).
C10_InvalidMergeRejected ==
    (/\ call.op = "merge_classes"
     /\ \/ ~IsRepresentative(pre.c, call.k1)
        \/ ~IsRepresentative(pre.c, call.k2)) =>
        /\ ret.err # ""
        /\ C = pre.c


\* the classes of a partition as sets of words, labels left out
Grouping(c) == {Range(get_class_members(c)[cls]) : cls \in DOMAIN get_class_members(c)}

Representatives(c) == {w \in DOMAIN c.classes : IsRepresentative(c, w)}

\* C11: for three distinct current class labels A, B, C, merging A into B
\* and then B into C gives the same grouping of the universe as merging A
\* into C and then B into C: the members of A, B and C form one class and
\* every other class is as it was.
C11_MergeAssociative ==
    \A la \in Representatives(C), lb \in Representatives(C), lc \in Representatives(C) :
        (la # lb /\ lb # lc /\ la # lc) =>
            LET viaB == merge_classes(merge_classes(C, lb, la).c, lc, lb).c
                direct == merge_classes(merge_classes(C, lc, la).c, lc, lb).c
                united == {w \in DOMAIN classes :
                              map_word_to_class(C, w) \in {la, lb, lc}}
            IN  /\ Grouping(viaB) = Grouping(direct)
                /\ united \in Grouping(viaB)
                /\ \A g \in Grouping(C) :
                      g \cap united = {} => g \in Grouping(viaB)

\* a merge has left three classes, one of them with two words
C11_Witness ==
    /\ call.op = "merge_classes" /\ ret.err = "" /\ call.k1 # call.k2
    /\ Representatives(C) = {1, 2, 3}
    /\ DOMAIN classes = {1, 2, 3, 4}
    /\ Cardinality(Grouping(merge_classes(merge_classes(C, 2, 1).c, 3, 2).c)) = 1

\* four classes of one word each: three are merged, the fourth stays
C11_WitnessOther ==
    /\ Cardinality(Representatives(C)) = 4
    /\ {4} \in Grouping(merge_classes(merge_classes(C, 2, 1).c, 3, 2).c)


\* number of distinct class labels the words of the universe map to
NumClasses(c) == Cardinality({map_word_to_class(c, w) : w \in DOMAIN c.classes})

\* C12: whatever two words merge_classes is given, two words that had the
\* same label before a call have the same label after it, the number of
\* distinct classes (of the words, and of get_unique_classes()) does not
\* grow, and the set of words of the universe is unchanged.
C12_MergesMonotonic ==
    /\ \A w1 \in DOMAIN pre.c.classes, w2 \in DOMAIN pre.c.classes :
          map_word_to_class(pre.c, w1) = map_word_to_class(pre.c, w2)
              => map_word_to_class(C, w1) = map_word_to_class(C, w2)
    /\ NumClasses(C) <= NumClasses(pre.c)
    /\ Cardinality(Range(get_unique_classes(C)))
          <= Cardinality(Range(get_unique_classes(pre.c)))
    /\ DOMAIN classes = DOMAIN pre.c.classes

\* a class of two words was merged into another class, label changed
C12_Witness ==
    /\ call.op = "merge_classes" /\ ret.err = ""
    /\ \E w1 \in DOMAIN classes, w2 \in DOMAIN classes :
          /\ w1 # w2
          /\ map_word_to_class(pre.c, w1) = map_word_to_class(pre.c, w2)
          /\ map_word_to_class(C, w1) # map_word_to_class(pre.c, w1)
          /\ map_word_to_class(C, w1) = map_word_to_class(C, w2)
    /\ NumClasses(C) = NumClasses(pre.c) - 1


\* C13: right after Classes(L), for every L (repeated words included), every
\* word of L maps to itself, the universe is the set of distinct words of L
\* and get_unique_classes() holds exactly those words, each once.
C13_InitialSingletons ==
    call.op = "Classes" =>
        /\ \A w \in Range(call.lst) : map_word_to_class(C, w) = w
        /\ DOMAIN classes = Range(call.lst)
        /\ Range(get_unique_classes(C)) = Range(call.lst)
        /\ Len(get_unique_classes(C)) = Cardinality(Range(call.lst))

\* a list of four entries with two distinct words, the repeated one first
C13_Witness ==
    /\ call.op = "Classes"
    /\ Len(call.lst) = 4
    /\ Occurrences(call.lst, 1) = 3 /\ call.lst[1] = 1 /\ call.lst[4] = 2
    /\ map_word_to_class(C, 1) = 1 /\ map_word_to_class(C, 2) = 2
    /\ get_unique_classes(C) = <<1, 2>>


\* number of (group, position) places of the mapping g that hold the word w
Places(g, w) ==
    Cardinality({p \in (DOMAIN g) \X (1..Cardinality(ClassWords)) :
                    p[2] \in DOMAIN g[p[1]] /\ g[p[1]][p[2]] = w})

\* C14: after merges on current class labels, get_class_members() holds
\* every word of the universe exactly once, in the group keyed by
\* map_word_to_class(word); no group is empty, only words of the universe
\* are listed, and the group keys are the labels of get_unique_classes().
C14_ClassMembersPartition ==
    call.op = "get_class_members" =>
        /\ \A w \in DOMAIN classes :
              /\ Places(ret.val, w) = 1
              /\ map_word_to_class(C, w) \in DOMAIN ret.val
              /\ w \in Range(ret.val[map_word_to_class(C, w)])
        /\ \A cls \in DOMAIN ret.val :
              /\ ret.val[cls] # <<>>
              /\ Range(ret.val[cls]) \subseteq DOMAIN classes
        /\ DOMAIN ret.val = Range(get_unique_classes(C))

\* the members were listed after merges left a class of three and a class of one
C14_Witness ==
    /\ call.op = "get_class_members"
    /\ DOMAIN classes = {1, 2, 3, 4}
    /\ DOMAIN ret.val = {2, 3}
    /\ Len(ret.val[3]) = 3 /\ ret.val[2] = <<2>>


\* C15: union_keys with a dim that is neither "row" nor "column" raises
\* ValueError whatever the keys, known or not (never KeyError), and leaves
\* the matrix as it was.
C15_InvalidAxisRaises ==
    (call.op = "union_keys" /\ call.dim \notin {"row", "column"}) =>
        /\ ret.err = "ValueError"
        /\ M = pre.m

\* ValueError for an invalid axis with a key unknown as row and as column
C15_Witness ==
    /\ call.op = "union_keys" /\ call.dim = "diagonal"
    /\ ret.err = "ValueError"
    /\ call.k1 \notin DOMAIN rows /\ call.k1 \notin DOMAIN cols
    /\ call.k2 \in DOMAIN rows /\ call.k2 \in DOMAIN cols

\* ValueError for an invalid axis with two keys known on both axes
C15_WitnessKnown ==
    /\ call.op = "union_keys" /\ call.dim = "diagonal"
    /\ ret.err = "ValueError"
    /\ call.k1 # call.k2
    /\ {call.k1, call.k2} \subseteq (DOMAIN rows) \cap (DOMAIN cols)


\* both words of the pair are in the vocabulary of the last call
BothIn(p) == p[1] \in call.v /\ p[2] \in call.v

\* C16: filter_pairs_by_vocabulary(S, V) yields the pairs of S whose two
\* words are in V, in the order and with the multiplicity they have in S:
\* all of S when every word is in V, nothing when no pair has both in V.
C16_FilterKeepsPairsInVocabulary ==
    call.op = "filter_pairs_by_vocabulary" =>
        /\ ret.val = SelectSeq(call.lst, BothIn)
        /\ (\A i \in DOMAIN call.lst : BothIn(call.lst[i])) => ret.val = call.lst
        /\ (\A i \in DOMAIN call.lst : ~BothIn(call.lst[i])) => ret.val = <<>>

\* a pair kept twice around a dropped pair of which one word is known
C16_Witness ==
    /\ call.op = "filter_pairs_by_vocabulary"
    /\ call.lst = <<<<1, 3>>, <<1, 2>>, <<1, 3>>>>
    /\ call.v = {1, 3}
    /\ ret.val = <<<<1, 3>>, <<1, 3>>>>

\* the second assert of the source: only (1, 3) is left
C16_WitnessAssert ==
    /\ call.op = "filter_pairs_by_vocabulary"
    /\ call.lst = <<<<1, 2>>, <<2, 3>>, <<1, 3>>>>
    /\ call.v = {1, 3}
    /\ ret.val = <<<<1, 3>>>>

\* C17: for a list W of n words and a distance d >= 1, pairs(W, d) yields
\* (W[i], W[i+d]) for each i with i+d inside the list, in increasing i:
\* max(0, n-d) pairs, none when d >= n.
C17_PairsAtDistance ==
    (call.op = "pairs" /\ call.k1 >= 1) =>
        LET n == Len(call.lst)
            d == call.k1
            count == IF n - d > 0 THEN n - d ELSE 0
        IN  /\ Len(ret.val) = count
            /\ \A i \in 1..count : ret.val[i] = <<call.lst[i], call.lst[i + d]>>
            /\ d >= n => ret.val = <<>>

\* two pairs at distance 2 from four words
C17_Witness ==
    /\ call.op = "pairs" /\ call.k1 = 2
    /\ call.lst = <<1, 2, 3, 1>>
    /\ ret.val = <<<<1, 3>>, <<2, 1>>>>

\* a distance beyond the end of the list
C17_WitnessEmpty ==
    /\ call.op = "pairs" /\ call.k1 = 5 /\ Len(call.lst) = 4
    /\ ret.val = <<>>


\* C18: map_word_to_class of a word outside the universe returns the word,
\* without error and without changing the universe or get_unique_classes();
\* map_bigram_to_classes((w1, w2)) is the pair of the two words' labels.
C18_UnknownWordsPassThrough ==
    /\ call.op = "map_word_to_class" =>
          /\ ret.err = ""
          /\ call.k1 \notin DOMAIN pre.c.classes => ret.val = call.k1
          /\ call.k1 \in DOMAIN pre.c.classes =>
                ret.val = pre.c.classes_list[pre.c.classes[call.k1]]
          /\ C = pre.c
    /\ call.op = "map_bigram_to_classes" =>
          /\ ret.err = ""
          /\ ret.val = <<map_word_to_class(C, call.k1), map_word_to_class(C, call.k2)>>
          /\ \A i \in {1, 2} :
                <<call.k1, call.k2>>[i] \notin DOMAIN pre.c.classes
                    => ret.val[i] = <<call.k1, call.k2>>[i]
          /\ C = pre.c

\* an unknown word was looked up in a universe with a merged class
C18_Witness ==
    /\ call.op = "map_word_to_class"
    /\ call.k1 \notin DOMAIN classes
    /\ ret.val = call.k1
    /\ \E w \in DOMAIN classes : map_word_to_class(C, w) # w

\* a bigram of a merged-away word and an unknown word was looked up
C18_WitnessBigram ==
    /\ call.op = "map_bigram_to_classes"
    /\ call.k1 \in DOMAIN classes /\ call.k2 \notin DOMAIN classes
    /\ ret.val[1] # call.k1 /\ ret.val[2] = call.k2


\* the pairs stored in the row index of a matrix
Stored(m) == {p \in Words \X Words : p[1] \in DOMAIN m.rows /\ p[2] \in DOMAIN m.rows[p[1]]}

\* C19: no call removes a stored pair, a row key or a column key; m[a,b] = 0
\* on an absent pair stores it (in keys(), as a 0 of values(), in row a and
\* in column b); keys() lists every stored pair once and values() is as
\* long as keys().
C19_MatrixNeverShrinks ==
    /\ Range(keys(pre.m)) \subseteq Range(keys(M))
    /\ DOMAIN pre.m.rows \subseteq DOMAIN rows
    /\ DOMAIN pre.m.cols \subseteq DOMAIN cols
    /\ (call.op = "set" /\ call.v = 0) =>
          /\ <<call.k1, call.k2>> \in Range(keys(M))
          /\ 0 \in Range(values(M))
          /\ call.k2 \in KeysOf(get_sparse_row(M, call.k1))
          /\ call.k1 \in KeysOf(get_sparse_column(M, call.k2))
    /\ Range(keys(M)) = Stored(M)
    /\ Range(keys(M)) = written
    /\ Len(keys(M)) = Cardinality(Stored(M))
    /\ Len(values(M)) = Len(keys(M))

\* 0 was written to a pair that was absent; another pair holds a non-zero value
C19_Witness ==
    /\ call.op = "set" /\ call.v = 0
    /\ <<call.k1, call.k2>> \notin Range(keys(pre.m))
    /\ <<call.k1, call.k2>> \in Range(keys(M))
    /\ Len(keys(M)) = 3
    /\ 2 \in Range(values(M))


\* the words of the universe that share the label of the word x
ClassOf(c, x) == {w \in DOMAIN c.classes : map_word_to_class(c, w) = map_word_to_class(c, x)}

\* C20: merge_classes(x, y) on any two words of the universe, class labels
\* or not, raises nothing and unites the class of x with the class of y and
\* nothing else: afterwards two words share a label iff they did before or
\* one was in x's class and the other in y's; and every label still maps to
\* itself.
C20_MergeUnitesClasses ==
    (/\ call.op = "merge_classes"
     /\ call.k1 \in DOMAIN pre.c.classes
     /\ call.k2 \in DOMAIN pre.c.classes) =>
        /\ ret.err = ""
        /\ \A w1 \in DOMAIN classes, w2 \in DOMAIN classes :
              (map_word_to_class(C, w1) = map_word_to_class(C, w2))
              <=> \/ map_word_to_class(pre.c, w1) = map_word_to_class(pre.c, w2)
                  \/ w1 \in ClassOf(pre.c, call.k1) /\ w2 \in ClassOf(pre.c, call.k2)
                  \/ w1 \in ClassOf(pre.c, call.k2) /\ w2 \in ClassOf(pre.c, call.k1)
        /\ \A w \in DOMAIN classes :
              map_word_to_class(C, map_word_to_class(C, w)) = map_word_to_class(C, w)

\* two merged-away words were given: their classes of two words each united
C20_Witness ==
    /\ call.op = "merge_classes" /\ ret.err = ""
    /\ ~IsRepresentative(pre.c, call.k1) /\ ~IsRepresentative(pre.c, call.k2)
    /\ call.k1 \in DOMAIN classes /\ call.k2 \in DOMAIN classes
    /\ NumClasses(pre.c) = 2 /\ NumClasses(C) = 1
    /\ Cardinality(ClassOf(pre.c, call.k1)) = 2
    /\ Cardinality(ClassOf(pre.c, call.k2)) = 2

====
